---- MODULE Spec2Model ----
(***************************************************************************)
(* A state-machine model of minimal_web_server.c: main's listener loop,    *)
(* process_request, read_line and send_string.  Bytes are one-character    *)
(* strings; C strings are sequences of bytes ended by NUL.  The peer, the  *)
(* transport (send), the filesystem (open, fstat) and the system calls of  *)
(* main are the environment: their results are chosen nondeterministically *)
(* from the sets below.                                                    *)
(***************************************************************************)
EXTENDS Integers, Sequences, FiniteSets, TLC

(* ------------------------------ bounds --------------------------------- *)
\* connections the listener loop accepts before the model stops offering any
MaxConns == 2
\* bytes a short write of the transport accepts (when fewer than requested)
ShortWrite == 16
\* sizes of the files open() may find: one below every request line's length,
\* one above the length of the short request lines
SmallFile == 4
BigFile == 20
\* send() calls that fail on one connection
MaxSendFails == 1

(* ------------------------- program constants --------------------------- *)
\* char request[500]
RequestSize == 500
\* char resource[500]
ResourceSize == 500
\* #define EOL_SIZE 2
EOL_SIZE == 2
\* the NULL pointer and the -1 of a failed system call
NULLP == -1
\* the '\0' byte
NUL == "NUL"

WEBROOT ==
  <<".","/","m","w","s","_","r","o","o","t">>
EOL ==
  <<"\r","\n">>
HTTP_MARK ==
  <<" ","H","T","T","P","/">>
GET_PREFIX ==
  <<"G","E","T"," ">>
HEAD_PREFIX ==
  <<"H","E","A","D"," ">>
INDEX_HTML ==
  <<"i","n","d","e","x",".","h","t","m","l">>
STATUS_404 ==
  <<"H","T","T","P","/","1",".","0"," ","4","0","4"," ","N","O","T"," ","F","O","U","N","D",
    "\r","\n">>
SERVER_404 ==
  <<"S","e","r","v","e","r",":"," ","M","i","n","i","m","a","l"," ","W","e","b"," ","S","e","r",
    "v","e","r","\r","\n","\r","\n">>
HTML_404_HEAD ==
  <<"<","h","t","m","l",">","<","h","e","a","d",">","<","t","i","t","l","e",">","4","0","4"," ",
    "N","o","t"," ","F","o","u","n","d","<","/","t","i","t","l","e",">","<","/","h","e","a","d",
    ">">>
HTML_404_BODY ==
  <<"<","b","o","d","y",">","<","h","1",">","U","R","L"," ","n","o","t"," ","f","o","u","n","d",
    "<","/","h","1",">","<","/","b","o","d","y",">","<","/","h","t","m","l",">","\r","\n">>
STATUS_200 ==
  <<"H","T","T","P","/","1",".","0"," ","2","0","0"," ","O","K","\r","\n">>
SERVER_200 ==
  <<"S","e","r","v","e","r",":"," ","T","i","n","y"," ","w","e","b","s","e","r","v","e","r",
    "\r","\n","\r","\n">>

(* ------------------------ what the peer may send ----------------------- *)
LineGetF ==
  <<"G","E","T"," ","/","f"," ","H","T","T","P","/","1",".","0">>
LineHeadF ==
  <<"H","E","A","D"," ","/","f"," ","H","T","T","P","/","1",".","0">>
LineGetDir ==
  <<"G","E","T"," ","/"," ","H","T","T","P","/","1",".","0">>
LineGetIndex ==
  <<"G","E","T"," ","/","i","n","d","e","x",".","h","t","m","l"," ","H","T","T","P","/","1",".",
    "0">>
LineHeadDir ==
  <<"H","E","A","D"," ","/"," ","H","T","T","P","/","1",".","0">>
LineHeadIndex ==
  <<"H","E","A","D"," ","/","i","n","d","e","x",".","h","t","m","l"," ","H","T","T","P","/","1",
    ".","0">>
LineGetUp ==
  <<"G","E","T"," ","/",".",".","/","s"," ","H","T","T","P","/","1",".","0">>
LineHello ==
  <<"h","e","l","l","o">>
LinePost ==
  <<"P","O","S","T"," ","/","f"," ","H","T","T","P","/","1",".","0">>
LineLower ==
  <<"g","e","t"," ","/","f"," ","H","T","T","P","/","1",".","0">>
LineGetNoSpace ==
  <<"G","E","T"," ","H","T","T","P","/","1",".","0">>
LineGetEmpty ==
  <<"G","E","T"," "," ","H","T","T","P","/","1",".","0">>
LineGetBare ==
  <<"G","E","T"," ","/","f">>

LineGetCut ==
  <<"G","E","T"," ","/","f"," ">>
HostHeader ==
  <<"H","o","s","t",":"," ","x","\r","\n">>
LongHead ==
  <<"G","E","T"," ","/">>
LongTail ==
  <<"/"," ","H","T","T","P","/">>
Digits ==
  <<"0","1","2","3","4","5","6","7","8","9">>

Fill(c, n) == [i \in 1..n |-> c]

\* a request line of RequestSize - 2 bytes whose target ends in '/'
LineLong == LongHead \o Fill("a", RequestSize - 2 - Len(LongHead) - Len(LongTail)) \o LongTail

\* complete byte streams of a peer: everything it sends before it closes
Streams ==
  { LineGetF \o EOL, LineHeadF \o EOL,
    LineGetDir \o EOL, LineGetIndex \o EOL, LineHeadDir \o EOL, LineHeadIndex \o EOL,
    LineGetUp \o EOL,
    LineHello \o EOL, LineGetBare \o EOL, LinePost \o EOL, LineLower \o EOL, LineGetNoSpace \o EOL,
    LineGetEmpty \o EOL,
    LineGetF, LineGetCut, <<>>, EOL,
    LineGetF \o <<"\r">> \o EOL,
    LineGetF \o EOL \o HostHeader,
    Fill("x", RequestSize), Fill("x", RequestSize + 2),
    LineLong \o EOL }

(* --------------------------- C strings --------------------------------- *)
Min(S) == CHOOSE x \in S : \A y \in S : x <= y
Max(S) == CHOOSE x \in S : \A y \in S : x >= y

\* A char array is kept as the sequence of its bytes with the trailing NUL
\* bytes left out; index i is the C index (from 0).
Byte(buf, i) == IF i >= 0 /\ i < Len(buf) THEN buf[i + 1] ELSE NUL

Trim(buf) ==
  LET used == {j \in 1..Len(buf) : buf[j] # NUL}
  IN  IF used = {} THEN <<>> ELSE SubSeq(buf, 1, Max(used))

\* *(buf + i) = b
Store(buf, i, b) ==
  IF i < 0 THEN buf
  ELSE IF b = NUL
    THEN IF i >= Len(buf) THEN buf
         ELSE IF i = Len(buf) - 1 THEN Trim(SubSeq(buf, 1, i))
         ELSE [buf EXCEPT ![i + 1] = b]
    ELSE IF i < Len(buf) THEN [buf EXCEPT ![i + 1] = b]
         ELSE buf \o Fill(NUL, i - Len(buf)) \o <<b>>

\* the bytes of s stored at buf + i, buf + i + 1, ...
StoreAll(buf, i, s) ==
  LET n == IF Len(buf) > i + Len(s) THEN Len(buf) ELSE i + Len(s)
  IN  Trim([k \in 1..n |-> IF k > i /\ k <= i + Len(s) THEN s[k - i] ELSE Byte(buf, k - 1)])

\* strlen(buf + start)
strlen(buf, start) ==
  IF start >= Len(buf) THEN 0
  ELSE Min({k \in start..Len(buf) : Byte(buf, k) = NUL}) - start

\* the C string at buf + start, without its NUL
CStr(buf, start) == SubSeq(buf, start + 1, start + strlen(buf, start))

\* strstr(buf, needle): the index of the first occurrence, or NULL
strstr(buf, needle) ==
  LET n == strlen(buf, 0)
      hits == {i \in 0..(n - Len(needle)) :
                 \A j \in 1..Len(needle) : buf[i + j] = needle[j]}
  IN  IF hits = {} THEN NULLP ELSE Min(hits)

\* strncmp(buf, lit, Len(lit)) == 0, for a literal without NUL
strncmp0(buf, lit) == \A j \in 1..Len(lit) : Byte(buf, j - 1) = lit[j]

\* strcat(buf + start, lit)
strcat(buf, start, lit) == StoreAll(buf, start + strlen(buf, start), lit \o <<NUL>>)

(* ------------------------------ state ---------------------------------- *)
VARIABLES
  pc,             \* where the single thread of control is
  bindResult,     \* what bind() returned
  conns,          \* connections accepted so far
  socks,          \* client socket descriptors the process holds open
  shut,           \* shutdown() was called on the current client socket
  peer,           \* history: everything the current peer sends
  stream,         \* the bytes of the peer not yet received
  request,        \* char request[500] of process_request
  ptr,            \* read_line: ptr - dest_buffer
  eol_indx,       \* read_line: eol_indx
  length,         \* process_request: length
  http_check,     \* process_request: http_check - request, or NULLP
  url,            \* process_request: url - request, or NULLP
  resource,       \* the C string in char resource[500]
  resource_fd,    \* process_request: resource_fd
  fileOpen,       \* the descriptor resource_fd is open
  fsz,            \* the size of the file open() found
  file_size,      \* process_request: file_size
  file,           \* the bytes read() put at file
  todo,           \* the send_string calls of the response still to be made
  buffer,         \* send_string: the string it was called with
  off,            \* send_string: how far buffer has been advanced
  bytes_to_send,  \* send_string: bytes_to_send
  calls,          \* history: the send_string calls of this connection
  body,           \* history: what the send() of the file returned
  wire,           \* history: the bytes the transport accepted on this connection
  fails,          \* history: the send() calls that failed on this connection
  earlier,        \* history: the reply to the previous connection, see Remembered
  ub              \* undefined behaviour the handler has run into

mainVars == <<bindResult, conns, socks>>
lineVars == <<peer, stream, request, ptr, eol_indx, length>>
parseVars == <<http_check, url, resource>>
fileVars == <<resource_fd, fileOpen, fsz, file_size, file, body>>
sendVars == <<todo, buffer, off, bytes_to_send, calls, wire, fails>>
vars == <<pc, mainVars, shut, lineVars, parseVars, fileVars, sendVars, ub, earlier>>

HandlerPcs == {"read_line", "parse", "resolve", "open", "send_string", "body",
               "body_send", "close", "shutdown"}

(* ---------------------------- environment ------------------------------ *)
\* what one send() of n > 0 bytes may accept
Accepts(n) == {n} \cup {k \in {ShortWrite} : k < n}

\* what open() may return: -1, or a file of one of these sizes
OpenResults == {NULLP, 0, SmallFile, BigFile}

\* the content of a file of n bytes
FileContent(n) == [i \in 1..n |-> Digits[(i % Len(Digits)) + 1]]

\* what the stack holds where request[] is, when process_request is entered:
\* zero bytes, or what the previous call left there
Uninitialized(old) ==
  {<<>>, IF Len(old) > RequestSize THEN Trim(SubSeq(old, 1, RequestSize)) ELSE old}

\* every send() accepted all it was given and fstat worked
CleanTransport ==
  /\ fails = 0
  /\ \A i \in 1..Len(calls) : Len(calls[i].res) = 1
  /\ file_size # NULLP
  /\ body \in {0, file_size}

\* The reply to a request line that names index.html is kept for the next
\* connection to be compared with, when the transport was clean.
Remembered == {LineGetIndex \o EOL, LineHeadIndex \o EOL}
NoReply == [peer |-> <<>>, found |-> FALSE, fsz |-> 0, wire |-> <<>>]

Init ==
  /\ pc = "socket"
  /\ bindResult = 0 /\ conns = 0 /\ socks = 0 /\ shut = FALSE
  /\ peer = <<>> /\ stream = <<>> /\ request = <<>>
  /\ ptr = 0 /\ eol_indx = 0 /\ length = 0
  /\ http_check = NULLP /\ url = NULLP /\ resource = <<>>
  /\ resource_fd = NULLP /\ fileOpen = FALSE /\ fsz = 0 /\ file_size = 0
  /\ file = <<>> /\ body = 0
  /\ todo = <<>> /\ buffer = <<>> /\ off = 0 /\ bytes_to_send = 0
  /\ calls = <<>> /\ wire = <<>> /\ fails = 0
  /\ ub = {}
  /\ earlier = NoReply

(* -------------------------------- main --------------------------------- *)
\* socket() == -1: return 1
Socket ==
  /\ pc = "socket"
  /\ \E r \in {3, NULLP} : pc' = IF r = -1 THEN "exit" ELSE "setsockopt"
  /\ UNCHANGED <<mainVars, shut, lineVars, parseVars, fileVars, sendVars, ub, earlier>>

\* setsockopt() == -1: return 1
SetSockOpt ==
  /\ pc = "setsockopt"
  /\ \E r \in {0, NULLP} : pc' = IF r = -1 THEN "exit" ELSE "bind"
  /\ UNCHANGED <<mainVars, shut, lineVars, parseVars, fileVars, sendVars, ub, earlier>>

\* the test main makes of bind()'s result
BindFailed(r) == r = 1

Bind ==
  /\ pc = "bind"
  /\ \E r \in {0, NULLP} :
       /\ bindResult' = r
       /\ pc' = IF BindFailed(r) THEN "exit" ELSE "listen"
  /\ UNCHANGED <<conns, socks, shut, lineVars, parseVars, fileVars, sendVars, ub, earlier>>

Listen ==
  /\ pc = "listen"
  /\ \E r \in {0, NULLP} : pc' = IF r = -1 THEN "exit" ELSE "accept"
  /\ UNCHANGED <<mainVars, shut, lineVars, parseVars, fileVars, sendVars, ub, earlier>>

\* accept() returns a client socket; process_request is entered
Accept ==
  /\ pc = "accept"
  /\ conns < MaxConns
  /\ \E s \in Streams, g \in Uninitialized(request) :
       /\ peer' = s /\ stream' = s /\ request' = g
  /\ conns' = conns + 1 /\ socks' = socks + 1 /\ shut' = FALSE
  /\ ptr' = 0 /\ eol_indx' = 0 /\ length' = 0
  /\ http_check' = NULLP /\ url' = NULLP /\ resource' = <<>>
  /\ resource_fd' = NULLP /\ fileOpen' = FALSE /\ fsz' = 0 /\ file_size' = 0
  /\ file' = <<>> /\ body' = 0
  /\ todo' = <<>> /\ buffer' = <<>> /\ off' = 0 /\ bytes_to_send' = 0
  /\ calls' = <<>> /\ wire' = <<>> /\ fails' = 0
  /\ ub' = {}
  /\ pc' = "read_line"
  /\ UNCHANGED <<bindResult, earlier>>

\* accept() == -1: return 1
AcceptFail ==
  /\ pc = "accept"
  /\ pc' = "exit"
  /\ UNCHANGED <<mainVars, shut, lineVars, parseVars, fileVars, sendVars, ub, earlier>>

(* ------------------------------ read_line ------------------------------ *)
\* the match index after byte b
EolNext(i, b) == IF b = EOL[i + 1] THEN i + 1 ELSE 0

\* recv() == 1: one more byte, stored at *ptr
RecvByte ==
  /\ pc = "read_line"
  /\ stream # <<>>
  /\ LET b == Head(stream)
         stored == Store(request, ptr, b)
         e == EolNext(eol_indx, b)
     IN  /\ stream' = Tail(stream)
         /\ eol_indx' = e
         /\ ub' = IF ptr >= RequestSize THEN ub \cup {"read_line overrun"} ELSE ub
         /\ IF e = EOL_SIZE
              THEN LET ended == Store(stored, ptr + 1 - EOL_SIZE, NUL)
                   IN  /\ request' = ended
                       /\ length' = strlen(ended, 0)
                       /\ ptr' = ptr
                       /\ pc' = "parse"
              ELSE /\ request' = stored
                   /\ ptr' = ptr + 1
                   /\ UNCHANGED <<length, pc, earlier>>
  /\ UNCHANGED <<mainVars, shut, peer, parseVars, fileVars, sendVars, earlier>>

\* recv() != 1: the peer closed (or the receive failed); return 0
RecvEnd ==
  /\ pc = "read_line"
  /\ stream = <<>>
  /\ length' = 0
  /\ pc' = "parse"
  /\ UNCHANGED <<mainVars, shut, peer, stream, request, ptr, eol_indx,
                 parseVars, fileVars, sendVars, ub, earlier>>

(* --------------------------- process_request --------------------------- *)
\* (mutant) the methods are compared without the space that ends them
ParseUrl_NoSpace(req) ==
  IF strncmp0(req, SubSeq(HEAD_PREFIX, 1, Len(HEAD_PREFIX) - 1)) THEN Len(HEAD_PREFIX)
  ELSE IF strncmp0(req, SubSeq(GET_PREFIX, 1, Len(GET_PREFIX) - 1)) THEN Len(GET_PREFIX)
  ELSE NULLP

\* the url pointer after the two strncmp tests (the HEAD test is made last)
ParseUrl(req) ==
  IF strncmp0(req, HEAD_PREFIX) THEN Len(HEAD_PREFIX)
  ELSE IF strncmp0(req, GET_PREFIX) THEN Len(GET_PREFIX)
  ELSE NULLP

\* (mutant) the result of strstr is not tested
NotValid_Never(hc) == FALSE

\* http_check == NULL
NotValid(hc) == hc = NULLP

\* strstr for " HTTP/", the cut at it, and the method test
Parse ==
  /\ pc = "parse"
  /\ LET hc == strstr(request, HTTP_MARK)
         cut == Store(request, hc, NUL)
     IN  /\ http_check' = hc
         /\ ub' = IF strlen(request, 0) >= RequestSize
                    THEN ub \cup {"request not terminated"} ELSE ub
         /\ IF NotValid(hc)
              THEN /\ pc' = "shutdown"
                   /\ UNCHANGED <<request, url, earlier>>
              ELSE /\ request' = cut
                   /\ url' = ParseUrl(cut)
                   /\ pc' = IF ParseUrl(cut) = NULLP THEN "shutdown" ELSE "resolve"
  /\ UNCHANGED <<mainVars, shut, peer, stream, ptr, eol_indx, length, resource,
                 fileVars, sendVars, earlier>>

\* url[strlen(url) - 1] == '/'
EndsInSlash(req, u) == Byte(req, u + strlen(req, u) - 1) = "/"

\* the request buffer after the in-place append of index.html
WithIndex(req, u) == IF EndsInSlash(req, u) THEN strcat(req, u, INDEX_HTML) ELSE req

\* strcpy(resource, WEBROOT); strcat(resource, url)
ResourcePath(req, u) == WEBROOT \o CStr(req, u)

Resolve ==
  /\ pc = "resolve"
  /\ LET req == WithIndex(request, url)
         path == ResourcePath(req, url)
     IN  /\ request' = req
         /\ resource' = path
         /\ ub' = ub
              \cup (IF EndsInSlash(request, url)
                       /\ url + strlen(request, url) + Len(INDEX_HTML) >= RequestSize
                      THEN {"request overrun"} ELSE {})
              \cup (IF Len(path) >= ResourceSize THEN {"resource overrun"} ELSE {})
  /\ pc' = "open"
  /\ UNCHANGED <<mainVars, shut, peer, stream, ptr, eol_indx, length, http_check, url,
                 fileVars, sendVars, earlier>>

\* (mutant) the header is sent before the status line
NotFoundResponse_Swapped == <<SERVER_404, STATUS_404, HTML_404_HEAD, HTML_404_BODY>>

\* (mutant) the GET and the HEAD branch both send their header
FoundResponse_Twice == <<STATUS_200, SERVER_200, STATUS_200, SERVER_200>>

\* (mutant) the header of the 200 response is sent before its status line
FoundResponse_NoStatus == <<SERVER_200, STATUS_200>>

\* the send_string calls of the three response shapes
NotFoundResponse == <<STATUS_404, SERVER_404, HTML_404_HEAD, HTML_404_BODY>>
FoundResponse == <<STATUS_200, SERVER_200>>

IsGet(req) == strncmp0(req, GET_PREFIX)
IsHead(req) == strncmp0(req, HEAD_PREFIX)

\* a send_string call is entered: bytes_to_send = strlen(buffer)
CallRecord(s) == [s |-> s, got |-> <<>>, res |-> <<>>, returned |-> FALSE, ret |-> 0]

\* (mutant) the file is sent whatever the method
AfterSends_BodyAlways == IF resource_fd = NULLP THEN "shutdown" ELSE "body"

\* (mutant) the 404 path returns without the shutdown
AfterSends_NoTeardown == IF resource_fd = NULLP THEN "accept"
                         ELSE IF IsGet(request) THEN "body" ELSE "close"

\* (mutant) the HEAD branch returns once its header is sent
AfterSends_HeadReturns == IF resource_fd = NULLP THEN "shutdown"
                          ELSE IF IsGet(request) THEN "body" ELSE "accept"

\* where process_request goes when the send_string calls of a shape are made
AfterSends == IF resource_fd = NULLP THEN "shutdown"
              ELSE IF IsGet(request) THEN "body" ELSE "close"

\* open(resource, O_RDONLY, 0), and the first send_string call of the response
Open ==
  /\ pc = "open"
  /\ \E r \in OpenResults :
       LET shape == IF r = NULLP THEN NotFoundResponse
                    ELSE IF IsGet(request) \/ IsHead(request) THEN FoundResponse
                    ELSE <<>>
       IN  /\ resource_fd' = IF r = NULLP THEN NULLP ELSE socks + 4
           /\ fileOpen' = (r # NULLP)
           /\ fsz' = IF r = NULLP THEN 0 ELSE r
           /\ todo' = Tail(shape)
           /\ buffer' = Head(shape)
           /\ off' = 0
           /\ bytes_to_send' = Len(Head(shape))
           /\ calls' = <<CallRecord(Head(shape))>>
  /\ pc' = "send_string"
  /\ UNCHANGED <<mainVars, shut, lineVars, parseVars, file_size, file, body, wire, fails, ub, earlier>>

(* ------------------------------ send_string ---------------------------- *)
\* (mutant) buffer is not advanced
Advance_Stuck(o, sent) == o

\* buffer += sent_bytes
Advance(o, sent) == o + sent
\* bytes_to_send -= sent_bytes
Remaining(n, sent) == n - sent

\* the history of the current call after send() returned r and accepted bytes b
Noted(r, b, returned, ret) ==
  [calls EXCEPT ![Len(calls)] =
     [@ EXCEPT !.got = @ \o b, !.res = Append(@, r), !.returned = returned, !.ret = ret]]

\* send_string returns: the next call of the response is entered, if any
Return(noted) ==
  IF todo = <<>>
    THEN /\ pc' = AfterSends
         /\ calls' = noted
         /\ UNCHANGED <<todo, buffer, earlier>>
         /\ off' = 0 /\ bytes_to_send' = 0
    ELSE /\ pc' = "send_string"
         /\ calls' = Append(noted, CallRecord(Head(todo)))
         /\ todo' = Tail(todo)
         /\ buffer' = Head(todo)
         /\ off' = 0
         /\ bytes_to_send' = Len(Head(todo))

\* send() accepted sent_bytes; return 1 when nothing is left
SendSome ==
  /\ pc = "send_string"
  /\ bytes_to_send > 0
  /\ \E sent \in Accepts(bytes_to_send) :
       LET b == SubSeq(buffer, off + 1, off + sent)
       IN  /\ wire' = wire \o b
           /\ IF Remaining(bytes_to_send, sent) > 0
                THEN /\ bytes_to_send' = Remaining(bytes_to_send, sent)
                     /\ off' = Advance(off, sent)
                     /\ calls' = Noted(sent, b, FALSE, 0)
                     /\ UNCHANGED <<pc, todo, buffer, earlier>>
                ELSE Return(Noted(sent, b, TRUE, 1))
  /\ UNCHANGED <<mainVars, shut, lineVars, parseVars, fileVars, fails, ub, earlier>>

\* send() == -1: return 0
SendFail ==
  /\ pc = "send_string"
  /\ bytes_to_send > 0
  /\ fails < MaxSendFails
  /\ fails' = fails + 1
  /\ Return(Noted(NULLP, <<>>, TRUE, 0))
  /\ UNCHANGED <<mainVars, shut, lineVars, parseVars, fileVars, wire, ub, earlier>>

(* --------------------------- the body of a GET ------------------------- *)
\* get_file_size: st_size, or -1 when fstat fails
FileSizes(size) == {size, NULLP}

\* malloc(length)
Allocated == length

\* file_size = get_file_size(resource_fd); file = malloc(length);
\* read(resource_fd, file, file_size)
BodyRead ==
  /\ pc = "body"
  /\ \E sz \in FileSizes(fsz) :
       /\ file_size' = sz
       /\ file' = IF sz = NULLP THEN <<>> ELSE FileContent(sz)
       /\ ub' = IF sz > Allocated THEN ub \cup {"file overrun"} ELSE ub
  /\ pc' = "body_send"
  /\ UNCHANGED <<mainVars, shut, lineVars, parseVars, resource_fd, fileOpen, fsz, body,
                 sendVars, earlier>>

\* what the one send() of the file may return
BodySends(n) ==
  IF n = NULLP THEN {NULLP}
  ELSE IF n = 0 THEN {0}
  ELSE Accepts(n) \cup (IF fails < MaxSendFails THEN {NULLP} ELSE {})

\* send(client_sock_fd, file, file_size, 0); free(file)
BodySend ==
  /\ pc = "body_send"
  /\ \E sent \in BodySends(file_size) :
       /\ body' = sent
       /\ fails' = IF sent = NULLP /\ file_size # NULLP THEN fails + 1 ELSE fails
       /\ wire' = IF sent > 0 THEN wire \o SubSeq(file, 1, sent) ELSE wire
  /\ pc' = "close"
  /\ UNCHANGED <<mainVars, shut, lineVars, parseVars, resource_fd, fileOpen, fsz, file_size,
                 file, todo, buffer, off, bytes_to_send, calls, ub, earlier>>

\* close(resource_fd)
CloseFile ==
  /\ pc = "close"
  /\ fileOpen' = FALSE
  /\ pc' = "shutdown"
  /\ UNCHANGED <<mainVars, shut, lineVars, parseVars, resource_fd, fsz, file_size, file,
                 body, sendVars, ub, earlier>>

\* shutdown(client_sock_fd, SHUT_RDWR); process_request returns to the loop
Shutdown ==
  /\ pc = "shutdown"
  /\ shut' = TRUE
  /\ pc' = "accept"
  /\ earlier' = IF peer \in Remembered /\ CleanTransport
                  THEN [peer |-> peer, found |-> resource_fd # NULLP, fsz |-> fsz,
                        wire |-> wire]
                  ELSE NoReply
  /\ UNCHANGED <<mainVars, lineVars, parseVars, fileVars, sendVars, ub>>

\* once the handler has written or read outside an object the process may die
Crash ==
  /\ pc \in HandlerPcs
  /\ ub # {}
  /\ pc' = "crashed"
  /\ UNCHANGED <<mainVars, shut, lineVars, parseVars, fileVars, sendVars, ub, earlier>>

Handler ==
  \/ RecvByte \/ RecvEnd \/ Parse \/ Resolve \/ Open \/ SendSome \/ SendFail
  \/ BodyRead \/ BodySend \/ CloseFile \/ Shutdown

Next ==
  \/ Socket \/ SetSockOpt \/ Bind \/ Listen \/ Accept \/ AcceptFail
  \/ Handler \/ Crash

Spec == Init /\ [][Next]_vars

(* ------------------------------ properties ----------------------------- *)
Response200 == STATUS_200 \o SERVER_200
Response404 == STATUS_404 \o SERVER_404 \o HTML_404_HEAD \o HTML_404_BODY

IsPrefix(a, b) == Len(a) <= Len(b) /\ a = SubSeq(b, 1, Len(a))

\* the handling of the current connection is over
Finished == shut \/ pc = "crashed"

\* a send() of this connection accepted fewer bytes than it was given
ShortWritten == \E i \in 1..Len(calls) : Len(calls[i].res) > 1

\* request lines for a file under the document root
GetFileLines == {LineGetF \o EOL, LineGetIndex \o EOL, LineGetF \o EOL \o HostHeader}
HeadFileLines == {LineHeadF \o EOL, LineHeadIndex \o EOL, LineHeadDir \o EOL}

\* C1: a GET of an existing file is answered with the 200 status line, the
\* header and the whole file, whatever the file's size (no send() failing).
C1_GetSendsWholeFile ==
  (peer \in GetFileLines /\ resource_fd # NULLP /\ fails = 0 /\ file_size # NULLP
     /\ Finished)
    => wire = Response200 \o FileContent(fsz)

\* C2: a HEAD of an existing file is answered with exactly the 200 status
\* line and the header, and no body byte, before the teardown (no send()
\* failing).
C2_HeadSendsNoBody ==
  (peer \in HeadFileLines /\ resource_fd # NULLP /\ fails = 0)
    => /\ IsPrefix(wire, Response200)
       /\ pc \notin {"body", "body_send", "crashed"}
       /\ (pc \in {"close", "shutdown"} \/ shut) => wire = Response200

C2_Witness ==
  /\ shut /\ peer = LineHeadF \o EOL /\ resource_fd # NULLP /\ fsz = BigFile
  /\ fails = 0 /\ ShortWritten /\ wire = Response200

\* C3: a GET or HEAD whose resource cannot be opened is answered with exactly
\* the 404 status line, the header and the HTML body, in that order, and the
\* answer is the same bytes as the answer to an earlier such request (no
\* send() failing).
C3_NotFoundIsFixed ==
  (url # NULLP /\ calls # <<>> /\ resource_fd = NULLP /\ fails = 0)
    => /\ IsPrefix(wire, Response404)
       /\ shut => wire = Response404
       /\ (pc = "shutdown" /\ earlier.peer # <<>> /\ ~earlier.found)
            => wire = earlier.wire

C3_Witness ==
  /\ pc = "shutdown" /\ url # NULLP /\ calls # <<>> /\ resource_fd = NULLP /\ fails = 0
  /\ ShortWritten
  /\ earlier.peer = LineHeadIndex \o EOL /\ ~earlier.found
  /\ peer = LineGetF \o EOL
  /\ wire = Response404

\* the request line that names the index document of a target ending in '/'
WithIndexLine(line) ==
  IF line = LineGetDir \o EOL THEN LineGetIndex \o EOL
  ELSE IF line = LineHeadDir \o EOL THEN LineHeadIndex \o EOL
  ELSE <<>>

\* C4: the response to a target ending in '/' is the response to that target
\* followed by index.html, the file being the same (no send() failing or
\* accepting less than it was given).
C4_SlashIsIndex ==
  (pc \in {"shutdown", "crashed"} /\ WithIndexLine(peer) # <<>> /\ earlier.peer = WithIndexLine(peer)
     /\ earlier.found = (resource_fd # NULLP) /\ earlier.fsz = fsz /\ CleanTransport)
    => wire = earlier.wire

\* complete request lines without " HTTP/"
NoMarkerLines == {LineHello \o EOL, LineGetBare \o EOL, EOL}

\* C5: a complete request line without " HTTP/" gets no byte written, no
\* file is opened for it, and the handler returns through the shutdown.
C5_NoMarkerNoResponse ==
  peer \in NoMarkerLines
    => /\ wire = <<>> /\ calls = <<>> /\ ~fileOpen
       /\ pc \notin {"resolve", "open", "send_string", "body", "body_send", "close",
                      "crashed"}
       /\ pc \in {"accept", "exit"} => shut

C5_Witness == shut /\ peer = LineGetBare \o EOL /\ wire = <<>> /\ http_check = NULLP

\* C6: read_line never writes outside request[0..RequestSize-1], and a stream
\* that fills the buffer without a CRLF ends the read with no complete line.
C6_ReadLineInBounds ==
  /\ "read_line overrun" \notin ub
  /\ ptr <= RequestSize
  /\ (pc = "read_line" /\ ptr = RequestSize) => stream = <<>>

\* whether a path leaves the directory it starts in: the depth below it after
\* each segment, ".." going up
SegDepth(seg, d) ==
  IF seg = <<".", ".">> THEN d - 1
  ELSE IF seg = <<>> \/ seg = <<".">> THEN d
  ELSE d + 1

RECURSIVE Leaves(_, _, _)
Leaves(s, seg, d) ==
  IF s = <<>> THEN SegDepth(seg, d) < 0
  ELSE IF Head(s) = "/"
    THEN SegDepth(seg, d) < 0 \/ Leaves(Tail(s), <<>>, SegDepth(seg, d))
    ELSE Leaves(Tail(s), Append(seg, Head(s)), d)

\* the resource path names something outside WEBROOT
OutsideRoot(path) ==
  \/ ~IsPrefix(WEBROOT, path)
  \/ Leaves(SubSeq(path, Len(WEBROOT) + 1, Len(path)), <<>>, 0)

\* C7: the file the handler has open is under the document root.
C7_OpensUnderRoot == fileOpen => ~OutsideRoot(resource)

\* the bytes a call's send() results say were accepted
RECURSIVE Accepted(_)
Accepted(res) ==
  IF res = <<>> THEN 0
  ELSE (IF Head(res) > 0 THEN Head(res) ELSE 0) + Accepted(Tail(res))

\* the send() results before the last one
Front(res) == SubSeq(res, 1, Len(res) - 1)

\* C8: every send_string call hands the transport the bytes of its string in
\* order, without repetition or gap, returns 1 once all are accepted, and
\* returns 0 at the first send() that fails, sending nothing further.
C8_SendStringSendsAll ==
  /\ \A i \in 1..Len(calls) :
       LET c == calls[i]
       IN  /\ c.got = SubSeq(c.s, 1, Accepted(c.res))
           /\ \A j \in 1..Len(Front(c.res)) : c.res[j] \in 1..Len(c.s)
           /\ c.returned <=> (c.got = c.s \/ (c.res # <<>> /\ c.res[Len(c.res)] = NULLP))
           /\ c.returned => c.ret = (IF c.got = c.s THEN 1 ELSE 0)
           /\ (c.returned /\ c.ret = 1) => \A j \in 1..Len(c.res) : c.res[j] > 0
           /\ ~c.returned => i = Len(calls) /\ pc \in {"send_string", "crashed"}
  /\ (pc = "send_string")
       => LET c == calls[Len(calls)]
          IN  /\ c.s = buffer /\ off = Len(c.got)
              /\ bytes_to_send = Len(c.s) - Len(c.got)

C8_Witness ==
  \E i, j \in 1..Len(calls) :
    /\ calls[i].returned /\ calls[i].ret = 1 /\ Len(calls[i].res) >= 3
    /\ calls[j].returned /\ calls[j].ret = 0 /\ Len(calls[j].res) >= 2

\* how far the handler is from its return: the statements still ahead, then
\* the bytes still to receive or to send in the loop it is in
PcRank(p) ==
  CASE p = "read_line" -> 9 [] p = "parse" -> 8 [] p = "resolve" -> 7 [] p = "open" -> 6
    [] p = "send_string" -> 5 [] p = "body" -> 4 [] p = "body_send" -> 3
    [] p = "close" -> 2 [] p = "shutdown" -> 1 [] OTHER -> 0

Rank ==
  PcRank(pc) * 1000
    + (IF pc = "read_line" THEN Len(stream)
       ELSE IF pc = "send_string" THEN Len(todo) * 100 + bytes_to_send
       ELSE 0)

\* The handler has a step to take: its computing steps wait for nothing, and
\* each of its system calls has a result to return (the peer sends or closes,
\* every send() returns).
CanStep ==
  \/ pc \in {"parse", "resolve"}
  \/ ENABLED (RecvByte \/ RecvEnd \/ Open \/ SendSome \/ SendFail \/ BodyRead \/ BodySend
                \/ CloseFile \/ Shutdown)

NoCompleteLine == conns > 0 /\ pc # "read_line" /\ eol_indx # EOL_SIZE

\* C10: when read_line finds no complete line the handler writes nothing and
\* goes to the teardown, whatever was received.
C10_NoLineNoResponse ==
  NoCompleteLine
    => /\ wire = <<>> /\ calls = <<>>
       /\ pc \in {"parse", "shutdown", "accept", "exit", "crashed"}

\* the bytes of the current peer that recv() has delivered
Consumed == SubSeq(peer, 1, Len(peer) - Len(stream))

\* the positions in s where \r\n begins
EolAt(s) == {i \in 1..(Len(s) - 1) : s[i] = EOL[1] /\ s[i + 1] = EOL[2]}
HasEol(s) == EolAt(s) # {}
FirstEol(s) == Min(EolAt(s))

\* C11: read_line stops at the first place where \r\n occur consecutively in
\* the stream: once the delivered bytes hold a \r\n the read is over, with a
\* line found, and no byte after that \r\n was taken.
C11_StopsAtFirstEol ==
  (conns > 0 /\ HasEol(Consumed))
    => /\ pc # "read_line"
       /\ eol_indx = EOL_SIZE
       /\ Len(Consumed) = FirstEol(Consumed) + 1

\* the bytes the send_string calls 1..i of this connection got accepted
RECURSIVE Sent(_, _)
Sent(cs, i) == IF i = 0 THEN <<>> ELSE Sent(cs, i - 1) \o cs[i].got

\* C12: when a write of a response fails, nothing more of the response is
\* written: the failed send_string call is the last one made, and the wire
\* holds only what was accepted up to the failure.
C12_FailedWriteEndsResponse ==
  \A i \in 1..Len(calls) :
    (calls[i].returned /\ calls[i].ret = 0)
      => /\ i = Len(calls)
         /\ wire = Sent(calls, i)

\* C13: a failure of accept does not end the listener loop.
C13_AcceptFailureNotFatal == [][pc = "accept" => pc' # "exit"]_vars

\* C14: when bind has failed, the accept loop is not entered and no connection
\* is accepted.
C14_NoAcceptAfterBindFailure ==
  bindResult = NULLP => (conns = 0 /\ pc # "accept")

\* C15: the listener loop calls accept again only when the handler of the
\* previous connection has shut it down, and connections are accepted one at
\* a time, by the loop alone.
C15_OneConnectionAtATime ==
  /\ []((conns > 0 /\ pc = "accept") => shut)
  /\ [][conns' # conns => (pc = "accept" /\ conns' = conns + 1 /\ (conns = 0 \/ shut))]_vars

C15_Witness ==
  /\ conns = MaxConns /\ pc = "send_string" /\ ~shut /\ earlier.peer # <<>>
  /\ peer = LineGetF \o EOL

\* complete request lines with " HTTP/" whose method is neither GET nor HEAD
UnknownLines == {LinePost \o EOL, LineLower \o EOL, LineGetNoSpace \o EOL}

\* C16: a complete request line with " HTTP/" that does not begin with "GET "
\* or "HEAD " has no url, opens no file, gets no byte written, and the handler
\* returns through the shutdown.
C16_UnknownMethodNoResponse ==
  peer \in UnknownLines
    => /\ url = NULLP /\ resource_fd = NULLP /\ ~fileOpen
       /\ wire = <<>> /\ calls = <<>>
       /\ pc \notin {"resolve", "open", "send_string", "body", "body_send", "close",
                      "crashed"}
       /\ pc \in {"accept", "exit"} => shut

C16_Witness ==
  /\ shut /\ peer = LineLower \o EOL /\ http_check # NULLP /\ url = NULLP /\ wire = <<>>

\* the strings process_request hands to send_string
StatusLines == {STATUS_200, STATUS_404}
FixedStrings == StatusLines \cup {SERVER_200, SERVER_404, HTML_404_HEAD, HTML_404_BODY}
StartsStatus(s) == IsPrefix(<<"H", "T", "T", "P", "/">>, s)

\* C17: the only status lines written are the 200 and the 404 one: every
\* string written is one of the fixed strings, the first of a response is one
\* of the two status lines and no other string is a status line; without a
\* method and target nothing is written; and when no send() fails, what is on
\* the wire begins with one of the two status lines.
C17_OnlyKnownStatusLines ==
  /\ \A i \in 1..Len(calls) :
       /\ calls[i].s \in FixedStrings
       /\ StartsStatus(calls[i].s) <=> i = 1
  /\ calls # <<>> => calls[1].s \in StatusLines
  /\ url = NULLP => (wire = <<>> /\ calls = <<>>)
  /\ (fails = 0 /\ wire # <<>>)
       => \E st \in StatusLines : IsPrefix(wire, st) \/ IsPrefix(st, wire)

C17_Witness ==
  /\ pc = "shutdown" /\ conns = MaxConns /\ Len(calls) = 4 /\ fails = 1 /\ wire # <<>>
  /\ calls[1].s = STATUS_404 /\ calls[1].ret = 1

\* C18: a GET of an existing file whose buffer is large enough sends the whole
\* body also when the transport accepts fewer bytes than it is given (no
\* send() failing).
C18_BodySentOverShortWrites ==
  (pc = "close" /\ IsGet(request) /\ ub = {} /\ fails = 0 /\ file_size # NULLP)
    => /\ body = file_size
       /\ wire = Response200 \o FileContent(fsz)

\* C19: a request classified as GET or HEAD has a target that is not empty,
\* so that the byte tested for '/' is a byte of the target.
C19_TargetNotEmpty ==
  (url # NULLP /\ pc = "resolve")
    => /\ strlen(request, url) > 0
       /\ url + strlen(request, url) - 1 >= url

\* C20: when the stream holds a \r\n within its first RequestSize bytes,
\* read_line returns the bytes before the first \r\n as a C string, their
\* number, which is at most RequestSize - 2, and has taken from the connection
\* the bytes through that \r\n and no more.
C20_ReturnsFirstLine ==
  (conns > 0 /\ pc = "parse" /\ HasEol(peer) /\ FirstEol(peer) + 1 <= RequestSize)
    => /\ eol_indx = EOL_SIZE
       /\ CStr(request, 0) = SubSeq(peer, 1, FirstEol(peer) - 1)
       /\ length = FirstEol(peer) - 1
       /\ length \in 0..(RequestSize - 2)
       /\ Len(Consumed) = FirstEol(peer) + 1

\* C21: a connection goes through the handler's stages once and in order:
\* read_line is entered from accept alone and nothing is received outside
\* it, no stage is gone back to, at most one status line is written, and once
\* the connection is shut down nothing is received from it or written to it.
C21_StagesOnceInOrder ==
  /\ [](Cardinality({i \in 1..Len(calls) : StartsStatus(calls[i].s)}) <= 1)
  /\ [][pc' = "read_line" => pc \in {"accept", "read_line"}]_vars
  /\ [][(pc # "read_line" /\ pc' # "read_line") => stream' = stream]_vars
  /\ [][(pc \in HandlerPcs /\ pc' \in HandlerPcs) => PcRank(pc') <= PcRank(pc)]_vars
  /\ [][(shut /\ shut') => (wire' = wire /\ stream' = stream)]_vars

C21_Witness ==
  /\ shut /\ peer = LineGetF \o EOL \o HostHeader /\ stream = HostHeader
  /\ Len(calls) = 2 /\ body = SmallFile /\ wire = Response200 \o FileContent(SmallFile)

\* C22: whether a connection is taken for an HTTP request, and where its
\* " HTTP/" is, depends on the bytes received on that connection alone, not
\* on what an earlier connection left in request[].
C22_AnswerFromOwnBytes ==
  (conns > 0 /\ pc \notin {"read_line", "parse"})
    => http_check = strstr(Consumed, HTTP_MARK)

\* C23: the bytes read() puts into the body buffer fit the block malloc gave.
C23_BodyFitsBuffer ==
  pc = "body_send" => Len(file) <= Allocated

\* C24: for a line read_line accepted (at most RequestSize - 2 bytes), the
\* path with its NUL fits resource[] and the target, with index.html appended
\* in place, fits request[].
C24_PathFitsBuffers ==
  (pc = "open" /\ eol_indx = EOL_SIZE /\ length <= RequestSize - 2)
    => /\ Len(resource) + 1 <= ResourceSize
       /\ url + strlen(request, url) + 1 <= RequestSize

\* C25: when the handler has returned, the resource file is closed and the
\* process holds no client socket descriptor.
C25_NoDescriptorLeft ==
  (conns > 0 /\ pc = "accept") => (~fileOpen /\ socks = 0)

====
